---- MODULE Spec2Model ----
(***************************************************************************)
(* Model of the stylelint rule function-calc-no-unspaced-operator          *)
(* (src/lib/rules/function-calc-no-unspaced-operator/index.mjs).           *)
(*                                                                         *)
(* Text is a sequence of characters, so that offsets, slices and           *)
(* insertions are computed as the code computes them.  A character of      *)
(* ASCII is the string of that one character; any other character is the   *)
(* string of its code point, "U+" and four hexadecimal digits, as in       *)
(* "U+00A0" for the no-break space and "U+00E9" for e with acute accent;   *)
(* U+0000 is written "U+0000".  Offsets are 0-based as in JavaScript;      *)
(* sequences are 1-based, hence the +1 / -1.                               *)
(***************************************************************************)
EXTENDS Integers, Sequences, FiniteSets

VARIABLES
    fix,         \* context.fix
    valueIndex,  \* declarationValueIndex(decl)
    value,       \* the declaration's value text
    tree,        \* parsedValue.nodes (<<>> before valueParser ran)
    todo,        \* paths of the function nodes parsedValue.walk has yet to visit
    needsFix,    \* let needsFix
    reports,     \* what complain() sent to report(), in order
    visits,      \* history: one record per callback run on a matched function
    pc,          \* "start" | "walk" | "done" | "error"
    pass         \* number of the lint run on this declaration (1 or 2)

vars == <<fix, valueIndex, value, tree, todo, needsFix, reports, visits, pc, pass>>

-----------------------------------------------------------------------------
(* Text helpers (JavaScript String methods used by the rule).              *)

\* a 0-based index argument of slice brought into 0..Len(s): a negative
\* one counts from the end, one past either end is clamped
RelativeIndex(s, i) ==
    IF i < 0 THEN (IF Len(s) + i < 0 THEN 0 ELSE Len(s) + i)
    ELSE IF i > Len(s) THEN Len(s) ELSE i

\* s.slice(start, end)
Slice(s, start, end) ==
    LET from == RelativeIndex(s, start)
        to == RelativeIndex(s, end)
    IN  IF from < to THEN SubSeq(s, from + 1, to) ELSE <<>>

\* s.slice(from) and s.slice(from, s.length)
SliceFrom(s, from) == Slice(s, from, Len(s))

\* s.slice(0, to)
SliceTo(s, to) == Slice(s, 0, to)

\* s.charAt(i): <<>> stands for the empty string
CharAt(s, i) == IF i >= 0 /\ i < Len(s) THEN <<s[i + 1]>> ELSE <<>>

\* the characters String.prototype.trim removes, WhiteSpace and
\* LineTerminator of ECMAScript: tab, line feed, vertical tab, form feed,
\* carriage return, space, no-break space, U+1680, U+2000 to U+200A, U+2028,
\* U+2029, U+202F, U+205F, U+3000 and U+FEFF
WhiteSpace ==
    {"\t", "\n", "", "\f", "\r", " ",
     "U+00A0", "U+1680",
     "U+2000", "U+2001", "U+2002", "U+2003", "U+2004", "U+2005",
     "U+2006", "U+2007", "U+2008", "U+2009", "U+200A",
     "U+2028", "U+2029", "U+202F", "U+205F", "U+3000", "U+FEFF"}

RECURSIVE TrimStart(_)
TrimStart(s) ==
    IF s # <<>> /\ s[1] \in WhiteSpace THEN TrimStart(Tail(s)) ELSE s

RECURSIVE TrimEnd(_)
TrimEnd(s) ==
    IF s # <<>> /\ s[Len(s)] \in WhiteSpace THEN TrimEnd(SubSeq(s, 1, Len(s) - 1)) ELSE s

\* String.prototype.trim
Trim(s) == TrimEnd(TrimStart(s))

\* s.search(re) for a regex matching one character of cs: 0-based index or -1
SearchChars(s, cs) ==
    LET hits == {i \in 1..Len(s) : s[i] \in cs}
    IN  IF hits = {} THEN -1 ELSE (CHOOSE i \in hits : \A j \in hits : i <= j) - 1

\* does text s hold text t at 1-based position i
HasAt(s, i, t) == i + Len(t) - 1 <= Len(s) /\ SubSeq(s, i, i + Len(t) - 1) = t

-----------------------------------------------------------------------------
(* Constants of the rule.                                                  *)

OPERATORS == {<<"+">>, <<"-">>}

\* OPERATOR_REGEX = /[+-]/
OPERATOR_CHARS == {"+", "-"}

ALL_OPERATORS == OPERATORS \cup {<<"*">>, <<"/">>}

\* the letters a regex with the i flag folds, and their lower-case forms
UpperCaseLetters ==
    <<"A", "B", "C", "D", "E", "F", "G", "H", "I", "J", "K", "L", "M",
      "N", "O", "P", "Q", "R", "S", "T", "U", "V", "W", "X", "Y", "Z">>

LowerCaseLetters ==
    <<"a", "b", "c", "d", "e", "f", "g", "h", "i", "j", "k", "l", "m",
      "n", "o", "p", "q", "r", "s", "t", "u", "v", "w", "x", "y", "z">>

\* the lower-case form of each upper-case letter
LowerCase ==
    [c \in {UpperCaseLetters[n] : n \in 1..Len(UpperCaseLetters)} |->
        LowerCaseLetters[CHOOSE n \in 1..Len(UpperCaseLetters) : UpperCaseLetters[n] = c]]

\* a text with its ASCII letters in lower case: matching it against a
\* lower-case pattern is matching the text with the i flag
IgnoreCase(s) ==
    [k \in 1..Len(s) |-> IF s[k] \in DOMAIN LowerCase THEN LowerCase[s[k]] ELSE s[k]]

\* reference/functions.mjs: singleArgumentMathFunctions
singleArgumentMathFunctions ==
    { <<"a","b","s">>, <<"a","c","o","s">>, <<"a","s","i","n">>, <<"a","t","a","n">>,
      <<"c","a","l","c">>, <<"c","o","s">>, <<"e","x","p">>, <<"s","i","g","n">>,
      <<"s","i","n">>, <<"s","q","r","t">>, <<"t","a","n">> }

\* FUNC_NAMES_REGEX.test(name): ^(?:abs|...)$ with the i flag
FUNC_NAMES_REGEX(name) == IgnoreCase(name) \in singleArgumentMathFunctions

\* FUNC_CALLS_REGEX.test(value): some name followed by "(" anywhere in the
\* value, with the i flag
FUNC_CALLS_REGEX(v) ==
    LET folded == IgnoreCase(v)
    IN  \E i \in 1..Len(v) : \E n \in singleArgumentMathFunctions :
            HasAt(folded, i, n \o <<"(">>)

\* OPERATOR_REGEX.test(value)
OPERATOR_REGEX(v) == SearchChars(v, OPERATOR_CHARS) # -1

-----------------------------------------------------------------------------
(* postcss-value-parser: nodes, parse, stringify.                          *)

\* a node; sourceIndex is 0-based, quote is the quote of a string node and
\* unclosed tells that the input ended inside the node
Node(type, v, i) ==
    [type |-> type, value |-> v, sourceIndex |-> i,
     before |-> <<>>, after |-> <<>>, nodes |-> <<>>,
     quote |-> <<>>, unclosed |-> FALSE]

Word(v, i) == Node("word", v, i)

Space(v, i) == Node("space", v, i)

Div(v, i, b) == [Node("div", v, i) EXCEPT !.before = b]

String(v, i, q, u) == [Node("string", v, i) EXCEPT !.quote = q, !.unclosed = u]

Comment(v, i, u) == [Node("comment", v, i) EXCEPT !.unclosed = u]

UnicodeRange(v, i) == Node("unicode-range", v, i)

Function(name, i, b, a, ns, u) ==
    [Node("function", name, i) EXCEPT !.before = b, !.after = a, !.nodes = ns,
                                      !.unclosed = u]

isWord(node) == node.type = "word"
isSpace(node) == node.type = "space"
isFunction(node) == node.type = "function"

\* the tokenizer's variable parent: undefined until the first function
\* closes at the top level, the root of the stack after that, and inside a
\* function that function node
NoParent == [type |-> "undefined", value |-> <<>>]
RootParent == [type |-> "root", value |-> <<>>]
FunctionParent(name) == [type |-> "function", value |-> name]

\* the parent is a function node named exactly calc: "*" and "/" are words
\* of their own
InCalc(parent) == parent.type = "function" /\ parent.value = <<"c","a","l","c">>

\* the tokenizer's counter balanced is positive
Balanced(parent) == parent.type = "function"

\* the tokenizer's whitespace, code <= 32: U+0000 to U+001F and the space
ParserWhiteSpace ==
    {"U+0000", "", "", "", "", "", "", "",
     "", "\t", "\n", "", "\f", "\r", "", "",
     "", "", "", "", "", "", "", "",
     "", "", "", "", "", "", "", "", " "}

\* the character at the 1-based position p, "" past the end (charCodeAt
\* gives NaN there, which equals no character)
Code(s, p) == IF p >= 1 /\ p <= Len(s) THEN s[p] ELSE ""

\* first 1-based position >= pos that holds no whitespace
RECURSIVE WsEnd(_, _)
WsEnd(s, pos) ==
    IF pos <= Len(s) /\ s[pos] \in ParserWhiteSpace THEN WsEnd(s, pos + 1) ELSE pos

\* last 1-based position < pos that holds no whitespace
RECURSIVE WsStart(_, _)
WsStart(s, pos) ==
    IF pos - 1 >= 1 /\ s[pos - 1] \in ParserWhiteSpace THEN WsStart(s, pos - 1) ELSE pos - 1

\* number of backslashes in a row right before the 1-based position p
RECURSIVE BackslashesBefore(_, _)
BackslashesBefore(s, p) ==
    IF p > 1 /\ s[p - 1] = "\\" THEN 1 + BackslashesBefore(s, p - 1) ELSE 0

\* first 1-based position >= from that holds the character c with an even
\* number of backslashes before it, 0 when there is none
RECURSIVE UnescapedIndexOf(_, _, _)
UnescapedIndexOf(s, c, from) ==
    IF from > Len(s) THEN 0
    ELSE IF s[from] = c /\ BackslashesBefore(s, from) % 2 = 0 THEN from
    ELSE UnescapedIndexOf(s, c, from + 1)

\* s.indexOf(t, from) with 1-based positions, 0 when there is none
RECURSIVE IndexOf(_, _, _)
IndexOf(s, t, from) ==
    IF from + Len(t) - 1 > Len(s) THEN 0
    ELSE IF HasAt(s, from, t) THEN from
    ELSE IndexOf(s, t, from + 1)

\* a character that ends a word
WordStop(c, parent) ==
    \/ c \in ParserWhiteSpace
    \/ c \in {"'", "\"", ",", ":", "/", "("}
    \/ c = "*" /\ InCalc(parent)
    \/ c = ")" /\ Balanced(parent)

\* the word loop from the 1-based position pos of the character it is
\* about to take: a backslash takes the character behind it along; returns
\* the first position the word does not hold
RECURSIVE WordEnd(_, _, _)
WordEnd(s, pos, parent) ==
    LET next == IF Code(s, pos) = "\\" THEN pos + 2 ELSE pos + 1
    IN  IF next <= Len(s) /\ ~WordStop(s[next], parent)
        THEN WordEnd(s, next, parent)
        ELSE next

HexDigits ==
    {"0", "1", "2", "3", "4", "5", "6", "7", "8", "9",
     "a", "b", "c", "d", "e", "f", "A", "B", "C", "D", "E", "F"}

\* u or U, +, then /^[a-f0-9?-]+$/i
isUnicodeRange(token) ==
    /\ Len(token) >= 3
    /\ token[1] \in {"u", "U"}
    /\ token[2] = "+"
    /\ \A k \in 3..Len(token) : token[k] \in HexDigits \cup {"?", "-"}

\* the function node of url( with an unquoted argument: the text up to the
\* first unescaped ")" is one word; open and start are the 1-based
\* positions of "(" and of the first character behind its whitespace.
\* Returns the node and the position behind it
UrlFunction(s, nameIndex, open, start) ==
    LET found == UnescapedIndexOf(s, ")", start)
        unclosed == found = 0
        next == IF unclosed THEN Len(s) + 1 ELSE found
        whitespacePos == WsStart(s, next)
        word == Word(SubSeq(s, start, whitespacePos), start - 1)
        trailing == SubSeq(s, whitespacePos + 1, next - 1)
        nodes == IF open >= whitespacePos THEN <<>>
                 ELSE IF unclosed /\ trailing # <<>>
                 THEN <<word, Space(trailing, whitespacePos)>>
                 ELSE <<word>>
        after == IF open >= whitespacePos THEN <<>>
                 ELSE IF unclosed /\ trailing # <<>> THEN <<>>
                 ELSE trailing
    IN  [node |-> Function(<<"u","r","l">>, nameIndex, SubSeq(s, open + 1, start - 1),
                           after, nodes, unclosed),
         pos |-> next + 1]

\* the tokenizer's loop over the children of parent, from the 1-based
\* position pos, with acc the nodes pushed so far; returns the nodes, the
\* position behind the closing parenthesis, the whitespace before it and
\* whether the input ended first
RECURSIVE ParseList(_, _, _, _)
ParseList(s, pos, parent, acc) ==
    IF pos > Len(s) THEN [nodes |-> acc, pos |-> pos, after |-> <<>>, unclosed |-> TRUE]
    \* whitespaces
    ELSE IF s[pos] \in ParserWhiteSpace THEN
        LET next == WsEnd(s, pos)
            token == SubSeq(s, pos, next - 1)
            code == Code(s, next)
        IN  IF code = ")" /\ Balanced(parent)
            THEN [nodes |-> acc, pos |-> next + 1, after |-> token, unclosed |-> FALSE]
            ELSE IF acc # <<>> /\ acc[Len(acc)].type = "div"
            THEN ParseList(s, next, parent, [acc EXCEPT ![Len(acc)].after = token])
            ELSE IF \/ code \in {",", ":"}
                    \/ /\ code = "/"
                       /\ Code(s, next + 1) # "*"
                       /\ \/ parent.type = "undefined"
                          \/ parent.type = "function" /\ ~InCalc(parent)
            THEN ParseList(s, next + 1, parent, Append(acc, Div(<<code>>, pos - 1, token)))
            ELSE ParseList(s, next, parent, Append(acc, Space(token, pos - 1)))
    \* quotes
    ELSE IF s[pos] \in {"'", "\""} THEN
        LET close == UnescapedIndexOf(s, s[pos], pos + 1)
        IN  IF close = 0
            THEN ParseList(s, Len(s) + 2, parent,
                     Append(acc, String(SubSeq(s, pos + 1, Len(s)), pos - 1, <<s[pos]>>, TRUE)))
            ELSE ParseList(s, close + 1, parent,
                     Append(acc, String(SubSeq(s, pos + 1, close - 1), pos - 1, <<s[pos]>>, FALSE)))
    \* comments
    ELSE IF s[pos] = "/" /\ Code(s, pos + 1) = "*" THEN
        LET next == IndexOf(s, <<"*", "/">>, pos)
        IN  IF next = 0
            THEN ParseList(s, Len(s) + 3, parent,
                     Append(acc, Comment(SubSeq(s, pos + 2, Len(s)), pos - 1, TRUE)))
            ELSE ParseList(s, next + 2, parent,
                     Append(acc, Comment(SubSeq(s, pos + 2, next - 1), pos - 1, FALSE)))
    \* operation within calc
    ELSE IF s[pos] \in {"/", "*"} /\ InCalc(parent) THEN
        ParseList(s, pos + 1, parent, Append(acc, Word(<<s[pos]>>, pos - 1)))
    \* dividers
    ELSE IF s[pos] \in {"/", ",", ":"} THEN
        ParseList(s, pos + 1, parent, Append(acc, Div(<<s[pos]>>, pos - 1, <<>>)))
    \* close parentheses
    ELSE IF s[pos] = ")" /\ Balanced(parent) THEN
        [nodes |-> acc, pos |-> pos + 1, after |-> <<>>, unclosed |-> FALSE]
    \* words and open parentheses
    ELSE
        LET open == IF s[pos] = "(" THEN pos ELSE WordEnd(s, pos, parent)
            token == SubSeq(s, pos, IF open - 1 > Len(s) THEN Len(s) ELSE open - 1)
        IN  IF Code(s, open) = "("
            THEN LET start == WsEnd(s, open + 1)
                 IN  IF token = <<"u","r","l">> /\ Code(s, start) \notin {"'", "\""}
                     THEN LET url == UrlFunction(s, pos - 1, open, start)
                          IN  ParseList(s, url.pos, parent, Append(acc, url.node))
                     ELSE LET inner == ParseList(s, start, FunctionParent(token), <<>>)
                              node == Function(token, pos - 1, SubSeq(s, open + 1, start - 1),
                                               inner.after, inner.nodes, inner.unclosed)
                          IN  ParseList(s, inner.pos,
                                        IF parent.type = "undefined" THEN RootParent ELSE parent,
                                        Append(acc, node))
            ELSE IF isUnicodeRange(token)
            THEN ParseList(s, open, parent, Append(acc, UnicodeRange(token, pos - 1)))
            ELSE ParseList(s, open, parent, Append(acc, Word(token, pos - 1)))

\* valueParser(value).nodes
valueParser(v) == ParseList(v, 1, NoParent, <<>>).nodes

\* parsedValue.toString()
RECURSIVE Stringify(_)
Stringify(nodes) ==
    IF nodes = <<>> THEN <<>>
    ELSE LET n == Head(nodes)
             text ==
                 IF n.type = "string"
                 THEN n.quote \o n.value \o (IF n.unclosed THEN <<>> ELSE n.quote)
                 ELSE IF n.type = "comment"
                 THEN <<"/", "*">> \o n.value \o (IF n.unclosed THEN <<>> ELSE <<"*", "/">>)
                 ELSE IF n.type = "div"
                 THEN n.before \o n.value \o n.after
                 ELSE IF n.type = "function"
                 THEN n.value \o <<"(">> \o n.before \o Stringify(n.nodes)
                      \o n.after \o (IF n.unclosed THEN <<>> ELSE <<")">>)
                 ELSE n.value
         IN  text \o Stringify(Tail(nodes))

-----------------------------------------------------------------------------
(* utils the rule imports.                                                 *)

\* the characters the dot of a regex without the s flag does not match
LineTerminators == {"\n", "\r", "U+2028", "U+2029"}

\* [-\w]
NameChars ==
    {UpperCaseLetters[n] : n \in 1..Len(UpperCaseLetters)}
    \cup {LowerCaseLetters[n] : n \in 1..Len(LowerCaseLetters)}
    \cup {"0", "1", "2", "3", "4", "5", "6", "7", "8", "9", "_", "-"}

\* /^.+/ ends right before the 1-based position i: one or more characters,
\* none of them a line terminator
DotPlusBefore(v, i) == i >= 2 /\ \A k \in 1..(i - 1) : v[k] \notin LineTerminators

\* the regex open.+?close finds a match: open, one or more characters
\* (line terminators only with the s flag), then the character close
HasDelimited(v, open, close, dotAll) ==
    \E i \in 1..Len(v) :
        /\ HasAt(v, i, open)
        /\ \E j \in (i + Len(open) + 1)..Len(v) :
              /\ v[j] = close
              /\ dotAll \/ \A k \in (i + Len(open))..(j - 1) : v[k] \notin LineTerminators

\* /@\{.+?\}/
hasLessInterpolation(v) == HasDelimited(v, <<"@", "{">>, "}", FALSE)

\* /#\{.+?\}/s
hasScssInterpolation(v) == HasDelimited(v, <<"#", "{">>, "}", TRUE)

\* /\{.+?\}/s
hasTplInterpolation(v) == HasDelimited(v, <<"{">>, "}", TRUE)

\* /\$\(.+?\)/
hasPsvInterpolation(v) == HasDelimited(v, <<"$", "(">>, ")", FALSE)

hasInterpolation(v) ==
    \/ hasLessInterpolation(v)
    \/ hasScssInterpolation(v)
    \/ hasTplInterpolation(v)
    \/ hasPsvInterpolation(v)

\* /^.+\.\$/: SCSS namespace.$variable
hasNamespacedVariable(v) ==
    \E i \in 1..Len(v) : HasAt(v, i, <<".", "$">>) /\ DotPlusBefore(v, i)

\* /^.+\.[-\w]+\(/: SCSS namespace.function-name(
hasNamespacedFunction(v) ==
    \E i \in 1..Len(v) :
        /\ v[i] = "."
        /\ DotPlusBefore(v, i)
        /\ \E j \in (i + 2)..Len(v) :
              /\ v[j] = "("
              /\ \A k \in (i + 1)..(j - 1) : v[k] \in NameChars

\* value.startsWith('__MSG_') && value.endsWith('__')
isWebExtensionKeyword(v) ==
    /\ HasAt(v, 1, <<"_", "_", "M", "S", "G", "_">>)
    /\ HasAt(v, Len(v) - 1, <<"_", "_">>)

\* isStandardSyntaxValue(text): false for a SCSS ($) or Less (@) variable,
\* also behind one leading operator character, for a SCSS namespace, for
\* an interpolation and for a WebExtension replacement keyword
isStandardSyntaxValue(v) ==
    LET normalizedValue == IF v # <<>> /\ v[1] \in {"-", "+", "*", "/"} THEN Tail(v) ELSE v
    IN  /\ ~HasAt(normalizedValue, 1, <<"$">>)
        /\ ~hasNamespacedVariable(v)
        /\ ~hasNamespacedFunction(v)
        /\ ~HasAt(normalizedValue, 1, <<"@">>)
        /\ ~hasInterpolation(v)
        /\ ~isWebExtensionKeyword(v)

\* what nodes[i] and nodes.at(i) give outside the array
Undefined == Node("undefined", <<>>, -1)

\* nodes[i] for a 0-based index
NodeAtIndex(nodes, i) == IF i >= 0 /\ i < Len(nodes) THEN nodes[i + 1] ELSE Undefined

\* nodes.at(i) for a negative index
NodeAtEnd(nodes, i) == NodeAtIndex(nodes, Len(nodes) + i)

\* assert(node) followed by isWord(node): a missing node is a broken walk
\* invariant and fails fast
assertThrows(node) == node = Undefined

-----------------------------------------------------------------------------
(* The rule: messages, complain and the module-level helpers.              *)

expectedBefore(operator) == [kind |-> "expectedBefore", operator |-> operator]
expectedAfter(operator) == [kind |-> "expectedAfter", operator |-> operator]
expectedOperatorBeforeSign(operator) ==
    [kind |-> "expectedOperatorBeforeSign", operator |-> operator]

\* complain with the span left empty (endIndex = index)
complainNoLength(message, index, operator) ==
    [message |-> message, index |-> index, endIndex |-> index]

\* complain(message, node, index, operator): the record handed to report()
complain(message, index, operator) ==
    [message |-> message, index |-> index, endIndex |-> index + Len(operator)]

\* insertCharAtIndex off by one: the character lands one place early
insertCharAtIndexShifted(str, index, char) ==
    LET at == IF index > 0 THEN index - 1 ELSE 0
    IN  SliceTo(str, at) \o char \o SliceFrom(str, at)

insertCharAtIndex(str, index, char) ==
    SliceTo(str, index) \o char \o SliceFrom(str, index)

\* isSingleSpace without the comparison with ' '
isSingleSpaceAnyWidth(node) ==
    node # Undefined /\ isSpace(node)

isSingleSpace(node) ==
    node # Undefined /\ isSpace(node) /\ node.value = <<" ">>

isOperator(node, operators) ==
    node # Undefined /\ isWord(node) /\ node.value \in operators

\* spaceNode.value.search(/(\n|\r\n)/)
indexOfFirstNewLine(v) ==
    LET hits == {i \in 1..Len(v) : v[i] = "\n" \/ HasAt(v, i, <<"\r", "\n">>)}
    IN  IF hits = {} THEN -1 ELSE (CHOOSE i \in hits : \A j \in hits : i <= j) - 1

\* line 77 without the early return
beginsWithNewLineNever(index) == FALSE

\* line 77: a space that begins with a newline is left alone
beginsWithNewLine(index) == index = 0

\* lines 81-82 slicing past the newline instead of at it
fixedSpaceValueDropsNewLine(v, index) ==
    IF index = -1 THEN <<" ">> ELSE SliceFrom(v, index + 1)

\* lines 81-82: the text a fixed space node gets
fixedSpaceValue(v, index) == IF index = -1 THEN <<" ">> ELSE SliceFrom(v, index)

\* lines 214 and 218 without the isSpace test
isUnexpectedSpaceAnyNode(node) ==
    node # Undefined /\ node.value # <<" ">>

\* lines 214 and 218: the sibling is a space node other than one space
isUnexpectedSpace(node) ==
    node # Undefined /\ isSpace(node) /\ node.value # <<" ">>

\* line 223 without the guard
runsSignChecksAlways(foundOperatorNode) == TRUE

\* line 223: the glued-sign checks run only when no standalone operator was found
runsSignChecks(foundOperatorNode) == ~foundOperatorNode

\* line 224 with both checks run one after the other
runsLastNodeCheckAlways(firstNodeResult) == TRUE

\* line 224: a || b evaluates b only when a returned false
runsLastNodeCheck(firstNodeResult) == ~firstNodeResult

(* The state the closures of one callback run share: the children of the   *)
(* function node (mutated in place), the reports sent, needsFix, and the   *)
(* read-only context.fix and valueIndex.                                   *)
Closure(nodes, f, vi, nf) ==
    [nodes |-> nodes, reports |-> <<>>, needsFix |-> nf, fix |-> f, valueIndex |-> vi,
     found |-> FALSE, ret |-> FALSE, threw |-> FALSE]

\* checkSpaceAroundOperator(operatorNode, spaceNode, position) with the two
\* nodes given by their 1-based places o and k among the children
checkSpaceAroundOperator(st, o, k, position) ==
    LET spaceNode == st.nodes[k]
        index == indexOfFirstNewLine(spaceNode.value)
        operator == st.nodes[o].value
        operatorSourceIndex == st.nodes[o].sourceIndex
        message == IF position = "before" THEN expectedBefore(operator)
                   ELSE expectedAfter(operator)
    IN  IF beginsWithNewLine(index) THEN st
        ELSE IF st.fix THEN
            [st EXCEPT !.needsFix = TRUE,
                       !.nodes[k].value = fixedSpaceValue(spaceNode.value, index)]
        ELSE
            [st EXCEPT !.reports =
                Append(@, complain(message, st.valueIndex + operatorSourceIndex, operator))]

\* checkForOperatorInFirstNode(nodes); .ret is the returned boolean and
\* .threw tells that reading the missing first node failed
checkForOperatorInFirstNode(st) ==
    IF assertThrows(NodeAtIndex(st.nodes, 0)) THEN [st EXCEPT !.threw = TRUE]
    ELSE
    LET firstNode == st.nodes[1]
        operatorIndex == SearchChars(firstNode.value, OPERATOR_CHARS)
        operator == CharAt(firstNode.value, operatorIndex)
        charBefore == CharAt(firstNode.value, operatorIndex - 1)
        charAfter == CharAt(firstNode.value, operatorIndex + 1)
        at == st.valueIndex + firstNode.sourceIndex + operatorIndex
    IN  IF ~isWord(firstNode) THEN [st EXCEPT !.ret = FALSE]
        ELSE IF ~isStandardSyntaxValue(firstNode.value) THEN [st EXCEPT !.ret = FALSE]
        ELSE IF operatorIndex <= 0 THEN [st EXCEPT !.ret = FALSE]
        ELSE IF charBefore # <<>> /\ charBefore # <<" ">>
                /\ charAfter # <<>> /\ charAfter # <<" ">> THEN
            IF st.fix THEN
                [st EXCEPT !.ret = TRUE, !.needsFix = TRUE,
                    !.nodes[1].value =
                        insertCharAtIndex(
                            insertCharAtIndex(firstNode.value, operatorIndex + 1, <<" ">>),
                            operatorIndex, <<" ">>)]
            ELSE
                [st EXCEPT !.ret = TRUE,
                    !.reports = @ \o << complain(expectedBefore(operator), at, operator),
                                        complain(expectedAfter(operator), at + 1, operator) >>]
        ELSE IF charBefore # <<>> /\ charBefore # <<" ">> THEN
            IF st.fix THEN
                [st EXCEPT !.ret = TRUE, !.needsFix = TRUE,
                    !.nodes[1].value =
                        insertCharAtIndex(firstNode.value, operatorIndex, <<" ">>)]
            ELSE
                [st EXCEPT !.ret = TRUE,
                    !.reports = Append(@, complain(expectedBefore(operator), at, operator))]
        ELSE [st EXCEPT !.ret = TRUE]

\* checkForOperatorInLastNode(nodes); .ret and .threw as above
checkForOperatorInLastNode(st) ==
    LET lastNode == NodeAtEnd(st.nodes, -1)
        operatorIndex == SearchChars(lastNode.value, OPERATOR_CHARS)
        operator == CharAt(lastNode.value, operatorIndex)
        once == Trim(insertCharAtIndex(lastNode.value, operatorIndex + 1, <<" ">>))
        twice == Trim(insertCharAtIndex(once, operatorIndex, <<" ">>))
    IN  IF Len(st.nodes) = 1 THEN [st EXCEPT !.ret = FALSE]
        ELSE IF assertThrows(lastNode) THEN [st EXCEPT !.threw = TRUE]
        ELSE IF ~isWord(lastNode) THEN [st EXCEPT !.ret = FALSE]
        ELSE IF operatorIndex = -1 THEN [st EXCEPT !.ret = FALSE]
        ELSE IF isOperator(NodeAtEnd(st.nodes, -3), ALL_OPERATORS)
                /\ isSingleSpace(NodeAtEnd(st.nodes, -2)) THEN [st EXCEPT !.ret = FALSE]
        ELSE IF st.fix THEN
            [st EXCEPT !.ret = TRUE, !.needsFix = TRUE, !.nodes[Len(st.nodes)].value = twice]
        ELSE
            [st EXCEPT !.ret = TRUE,
                !.reports = Append(@,
                    complain(expectedOperatorBeforeSign(operator),
                             st.valueIndex + lastNode.sourceIndex + operatorIndex, operator))]

\* lines 206-221: the loop over nodes.entries(), from the 1-based place i
RECURSIVE operatorLoop(_, _)
operatorLoop(st, i) ==
    IF i > Len(st.nodes) THEN st
    ELSE IF ~isOperator(st.nodes[i], OPERATORS) THEN operatorLoop(st, i + 1)
    ELSE
        LET s0 == [st EXCEPT !.found = TRUE]
            s1 == IF isUnexpectedSpace(NodeAtIndex(s0.nodes, i - 2))
                  THEN checkSpaceAroundOperator(s0, i, i - 1, "before") ELSE s0
            s2 == IF isUnexpectedSpace(NodeAtIndex(s1.nodes, i))
                  THEN checkSpaceAroundOperator(s1, i, i + 1, "after") ELSE s1
        IN  operatorLoop(s2, i + 1)

\* lines 202-225: the callback's body for a matched function node
walkMatched(st) ==
    LET looped == operatorLoop(st, 1)
        first == checkForOperatorInFirstNode(looped)
    IN  IF ~runsSignChecks(looped.found) THEN looped
        ELSE IF first.threw THEN first
        ELSE IF runsLastNodeCheck(first.ret) THEN checkForOperatorInLastNode(first)
        ELSE first

-----------------------------------------------------------------------------
(* parsedValue.walk: the function nodes in the order the walk reaches them. *)

\* paths (1-based places, outermost first) of the function nodes under
\* nodes[i..], parents before children
RECURSIVE FuncPaths(_, _, _)
FuncPaths(nodes, prefix, i) ==
    IF i > Len(nodes) THEN <<>>
    ELSE IF isFunction(nodes[i])
         THEN <<Append(prefix, i)>> \o FuncPaths(nodes[i].nodes, Append(prefix, i), 1)
              \o FuncPaths(nodes, prefix, i + 1)
         ELSE FuncPaths(nodes, prefix, i + 1)

RECURSIVE NodeAt(_, _)
NodeAt(nodes, path) ==
    IF Len(path) = 1 THEN nodes[path[1]] ELSE NodeAt(nodes[path[1]].nodes, Tail(path))

\* the tree with the children of the node at path replaced
RECURSIVE SetChildren(_, _, _)
SetChildren(nodes, path, children) ==
    IF Len(path) = 1 THEN [nodes EXCEPT ![path[1]].nodes = children]
    ELSE [nodes EXCEPT ![path[1]].nodes = SetChildren(@, Tail(path), children)]

-----------------------------------------------------------------------------
(* Inputs.                                                                 *)

\* most pieces an argument text is put together from
MaxPieces == 3

Pieces ==
    { <<"1">>, <<"-", "1">>, <<"1", "-", "1">>, <<"-">>, <<"+">>, <<"*">>,
      <<" ">>, <<" ", " ">>, <<"\n">>, <<" ", "\n">>, <<"\n", " ">>,
      <<"$", "1", "-", "1">>, <<"(", "1", ")">>, <<"/">>,
      <<"#", "{", "1", "}", "-", "1">>, <<"-", "1", "-", "1">> }

RECURSIVE ArgTexts(_)
ArgTexts(n) ==
    IF n = 0 THEN {<<>>}
    ELSE LET shorter == ArgTexts(n - 1)
         IN  shorter \cup {a \o p : a \in shorter, p \in Pieces}

\* declarations: the property and raws.between (their lengths give
\* valueIndex), what precedes the function in the value, its name, what its
\* arguments start with, and the most pieces its arguments are put
\* together from (the function behind an empty calc() is never reached, so
\* its arguments are kept short)
Decls ==
    { [prop |-> <<"t","o","p">>, between |-> <<":", " ">>, prefix |-> <<>>,
       name |-> <<"c","a","l","c">>, lead |-> <<>>, pieces |-> MaxPieces],
      [prop |-> <<"t","o","p">>, between |-> <<" ", ":", " ">>, prefix |-> <<>>,
       name |-> <<"c","a","l","c">>, lead |-> <<"1", " ">>, pieces |-> MaxPieces],
      [prop |-> <<"w","i","d","t","h">>, between |-> <<":">>, prefix |-> <<>>,
       name |-> <<"S","i","n">>, lead |-> <<>>, pieces |-> MaxPieces],
      [prop |-> <<"m","a","r","g","i","n">>, between |-> <<":", " ">>,
       prefix |-> <<"c","a","l","c","(",")"," ">>,
       name |-> <<"c","a","l","c">>, lead |-> <<>>, pieces |-> MaxPieces - 2] }

\* getDeclarationValue(decl)
DeclValue(d, args) == d.prefix \o d.name \o <<"(">> \o d.lead \o args \o <<")">>

\* declarationValueIndex(decl): the lengths of the property and of
\* raws.between || ':' (the declarations here carry no raws.prop and no
\* raws.value prefix)
declarationValueIndex(d) ==
    Len(d.prop) + (IF d.between = <<>> THEN 1 ELSE Len(d.between))

-----------------------------------------------------------------------------
(* The state machine: one declaration through root.walkDecls.              *)

Init ==
    /\ fix \in BOOLEAN
    /\ \E d \in Decls : \E args \in ArgTexts(d.pieces) :
        /\ value = DeclValue(d, args)
        /\ valueIndex = declarationValueIndex(d)
    /\ tree = <<>>
    /\ todo = <<>>
    /\ needsFix = FALSE
    /\ reports = <<>>
    /\ visits = <<>>
    /\ pc = "start"
    /\ pass = 1

\* lines 59-66 and 197: the two regex gates, then the tokenizer
Start ==
    /\ pc = "start"
    /\ IF OPERATOR_REGEX(value) /\ FUNC_CALLS_REGEX(value)
       THEN /\ tree' = valueParser(value)
            /\ todo' = FuncPaths(tree', <<>>, 1)
            /\ pc' = "walk"
       ELSE /\ pc' = "done"
            /\ UNCHANGED <<tree, todo>>
    /\ needsFix' = FALSE
    /\ UNCHANGED <<fix, valueIndex, value, reports, visits, pass>>

\* lines 199-226: the walk's callback on the next function node
Callback ==
    /\ pc = "walk"
    /\ todo # <<>>
    /\ LET path == Head(todo)
           node == NodeAt(tree, path)
           out == walkMatched(Closure(node.nodes, fix, valueIndex, needsFix))
       IN  IF ~FUNC_NAMES_REGEX(node.value)
           THEN /\ pc' = "walk"
                /\ UNCHANGED <<tree, needsFix, reports, visits>>
           ELSE /\ tree' = SetChildren(tree, path, out.nodes)
                /\ needsFix' = out.needsFix
                /\ reports' = reports \o out.reports
                /\ visits' = Append(visits,
                       [pass |-> pass, fix |-> fix, path |-> path, nodes |-> node.nodes,
                        after |-> out.nodes, reports |-> out.reports,
                        needsFixBefore |-> needsFix, needsFix |-> out.needsFix,
                        threw |-> out.threw])
                /\ pc' = IF out.threw THEN "error" ELSE "walk"
    /\ todo' = Tail(todo)
    /\ UNCHANGED <<fix, valueIndex, value, pass>>

\* lines 228-230: after the walk, the value is written back once
Finish ==
    /\ pc = "walk"
    /\ todo = <<>>
    /\ value' = IF needsFix THEN Stringify(tree) ELSE value
    /\ pc' = "done"
    /\ UNCHANGED <<fix, valueIndex, tree, todo, needsFix, reports, visits, pass>>

Next == Start \/ Callback \/ Finish

Spec == Init /\ [][Next]_vars

\* a second lint run on the value a fix-mode run left, in either mode
Relint ==
    /\ pc = "done"
    /\ pass = 1
    /\ fix
    /\ pass' = 2
    /\ fix' \in BOOLEAN
    /\ pc' = "start"
    /\ tree' = <<>>
    /\ todo' = <<>>
    /\ needsFix' = FALSE
    /\ reports' = <<>>
    /\ UNCHANGED <<valueIndex, value, visits>>

NextTwice == Start \/ Callback \/ Finish \/ Relint

SpecTwice == Init /\ [][NextTwice]_vars

-----------------------------------------------------------------------------
(* Vocabulary of the properties, stated on the recorded callback runs.     *)

Visit == {visits[k] : k \in 1..Len(visits)}

Sides == {"before", "after"}

\* places of the standalone + / - words among the children
StandaloneOps(nodes) ==
    {i \in 1..Len(nodes) : nodes[i].type = "word" /\ nodes[i].value \in {<<"+">>, <<"-">>}}

\* place of the sibling on a side of place i (may lie outside the children)
Sibling(i, side) == IF side = "before" THEN i - 1 ELSE i + 1

HasSibling(nodes, i, side) == Sibling(i, side) \in 1..Len(nodes)

\* the sibling on that side is a space node
SpaceOn(nodes, i, side) ==
    HasSibling(nodes, i, side) /\ nodes[Sibling(i, side)].type = "space"

StartsWithNewLine(t) ==
    \/ Len(t) >= 1 /\ t[1] = "\n"
    \/ Len(t) >= 2 /\ t[1] = "\r" /\ t[2] = "\n"

ContainsNewLine(t) == \E k \in 1..Len(t) : t[k] = "\n"

SideKind(side) == IF side = "before" THEN "expectedBefore" ELSE "expectedAfter"

\* the run reported the diagnostic of that side for the operator at place i
SideReported(v, i, side) ==
    \E k \in 1..Len(v.reports) :
        /\ v.reports[k].message.kind = SideKind(side)
        /\ v.reports[k].message.operator = v.nodes[i].value
        /\ v.reports[k].index = valueIndex + v.nodes[i].sourceIndex

Values(nodes) == [i \in 1..Len(nodes) |-> nodes[i].value]

\* the run changed no token
Untouched(v) == Values(v.after) = Values(v.nodes)

\* 0-based index of the first + or - of a text, -1 when it has none
FirstSign(t) ==
    IF \E k \in 1..Len(t) : t[k] \in {"+", "-"}
    THEN (CHOOSE k \in 1..Len(t) :
            /\ t[k] \in {"+", "-"}
            /\ \A j \in 1..(k - 1) : t[j] \notin {"+", "-"}) - 1
    ELSE -1

\* the leading-sign check examines the first child: a standard-syntax word
\* with its first sign behind its first character
LeadingApplies(nodes) ==
    /\ nodes # <<>>
    /\ nodes[1].type = "word"
    /\ isStandardSyntaxValue(nodes[1].value)
    /\ FirstSign(nodes[1].value) > 0

\* the sides of standalone operators whose space is neither one space nor
\* exempt by a leading newline
Offending(nodes) ==
    {p \in StandaloneOps(nodes) \X Sides :
        /\ SpaceOn(nodes, p[1], p[2])
        /\ nodes[Sibling(p[1], p[2])].value # <<" ">>
        /\ ~StartsWithNewLine(nodes[Sibling(p[1], p[2])].value)}

-----------------------------------------------------------------------------
(* C1: a second lint run on the value a fix-mode run wrote back mutates    *)
(* nothing in fix mode and reports nothing in check mode.                  *)
C1_SecondRunClean ==
    pass = 2 => ~needsFix /\ reports = <<>>

(* C2: the analysis never reaches an error state; a matched function with  *)
(* no children is skipped silently: no throw, no diagnostic, no mutation,  *)
(* and the walk goes on to the end.                                        *)
C2_EmptyFunctionSkipped ==
    /\ pc # "error"
    /\ \A v \in Visit : v.nodes = <<>> => ~v.threw /\ v.reports = <<>> /\ Untouched(v)

(* C3 as claimed: in check mode every standalone operator gets the         *)
(* diagnostic of a side unless that side is a space of exactly one space   *)
(* or whitespace containing a newline - also when the sibling is not a     *)
(* space node or is missing.                                               *)
C3_EverySideFlagged ==
    \A v \in Visit : ~v.fix =>
        \A i \in StandaloneOps(v.nodes) : \A side \in Sides :
            LET j == Sibling(i, side)
                single == SpaceOn(v.nodes, i, side) /\ v.nodes[j].value = <<" ">>
                newline == SpaceOn(v.nodes, i, side) /\ ContainsNewLine(v.nodes[j].value)
            IN  ~single /\ ~newline => SideReported(v, i, side)

(* C3 amended: in check mode a standalone operator gets the diagnostic of  *)
(* a side exactly when the sibling on that side is a space node whose text *)
(* is not one space and does not begin with a newline; these are all the   *)
(* diagnostics of a function that has a standalone operator.               *)
C3_SpaceSideFlagged ==
    \A v \in Visit : ~v.fix /\ StandaloneOps(v.nodes) # {} =>
        /\ \A i \in StandaloneOps(v.nodes) : \A side \in Sides :
              SideReported(v, i, side) <=> <<i, side>> \in Offending(v.nodes)
        /\ Len(v.reports) = Cardinality(Offending(v.nodes))

\* a check-mode run where one operator has an offending space on one side
\* (flagged) and a non-space or missing sibling on the other (not flagged)
C3_Witness ==
    \E v \in Visit : ~v.fix /\ \E i \in StandaloneOps(v.nodes) : \E a, b \in Sides :
        /\ <<i, a>> \in Offending(v.nodes) /\ SideReported(v, i, a)
        /\ ~SpaceOn(v.nodes, i, b) /\ ~SideReported(v, i, b)

(* C4: a function with a standalone operator never gets the glued-sign     *)
(* checks; when every space next to a standalone operator is one space,    *)
(* the run reports nothing, changes no token and leaves needsFix as it     *)
(* was, whatever signs its first or last word holds.                       *)
C4_StandaloneSkipsSignChecks ==
    \A v \in Visit :
        /\ StandaloneOps(v.nodes) # {}
        /\ \A i \in StandaloneOps(v.nodes) : \A side \in Sides :
              SpaceOn(v.nodes, i, side) => v.nodes[Sibling(i, side)].value = <<" ">>
        => /\ v.reports = <<>>
           /\ Untouched(v)
           /\ v.needsFix = v.needsFixBefore
           /\ ~v.threw

\* such a run on a function whose first word holds a glued sign
C4_Witness ==
    \E v \in Visit :
        /\ StandaloneOps(v.nodes) # {}
        /\ \A i \in StandaloneOps(v.nodes) : \A side \in Sides :
              SpaceOn(v.nodes, i, side) => v.nodes[Sibling(i, side)].value = <<" ">>
        /\ \E i \in StandaloneOps(v.nodes) : SpaceOn(v.nodes, i, "before")
        /\ LeadingApplies(v.nodes)
        /\ v.reports = <<>> /\ Untouched(v)

(* C5: a space next to a standalone operator whose text begins with a      *)
(* newline is not flagged in check mode and keeps its text in fix mode;    *)
(* when the other spaces next to operators are single spaces, the run      *)
(* does not set needsFix.                                                  *)
C5_LeadingNewLineExempt ==
    \A v \in Visit :
        /\ \A i \in StandaloneOps(v.nodes) : \A side \in Sides :
              SpaceOn(v.nodes, i, side)
              /\ StartsWithNewLine(v.nodes[Sibling(i, side)].value)
              => /\ ~SideReported(v, i, side)
                 /\ v.after[Sibling(i, side)].value = v.nodes[Sibling(i, side)].value
        /\ StandaloneOps(v.nodes) # {} /\ Offending(v.nodes) = {}
              => v.needsFix = v.needsFixBefore /\ v.reports = <<>>

\* a fix-mode run over an operator followed by a newline-led space longer
\* than the newline, with needsFix still unset
C5_Witness ==
    \E v \in Visit : v.fix /\ ~v.needsFix /\ \E i \in StandaloneOps(v.nodes) :
        /\ SpaceOn(v.nodes, i, "after")
        /\ StartsWithNewLine(v.nodes[i + 1].value)
        /\ Len(v.nodes[i + 1].value) > 1
        /\ v.after[i + 1].value = v.nodes[i + 1].value

-----------------------------------------------------------------------------
\* the spaces next to standalone operators that hold a newline behind
\* their first character
LateNewLine(nodes) ==
    {k \in 1..Len(nodes) :
        /\ nodes[k].type = "space"
        /\ indexOfFirstNewLine(nodes[k].value) > 0
        /\ \E i \in StandaloneOps(nodes) : k \in {i - 1, i + 1}}

(* C6 as claimed: in fix mode such a space loses everything up to and      *)
(* including its first newline.                                            *)
C6_TrimmedThroughNewLine ==
    \A v \in Visit : v.fix =>
        \A k \in LateNewLine(v.nodes) :
            LET t == v.nodes[k].value
            IN  v.after[k].value = SubSeq(t, indexOfFirstNewLine(t) + 2, Len(t))

(* C6 amended: in fix mode such a space loses what precedes its first      *)
(* newline and keeps the newline and all that follows it.                  *)
C6_TrimmedToNewLine ==
    \A v \in Visit : v.fix =>
        \A k \in LateNewLine(v.nodes) :
            LET t == v.nodes[k].value
            IN  /\ v.after[k].value = SubSeq(t, indexOfFirstNewLine(t) + 1, Len(t))
                /\ StartsWithNewLine(v.after[k].value)
                /\ v.needsFix

\* a fix-mode run that rewrote a space with text on both sides of its newline
C6_Witness ==
    \E v \in Visit : v.fix /\ \E k \in LateNewLine(v.nodes) :
        LET t == v.nodes[k].value
        IN  /\ Len(t) > indexOfFirstNewLine(t) + 1
            /\ v.after[k].value = SubSeq(t, indexOfFirstNewLine(t) + 1, Len(t))

\* the first child examined by the leading-sign check has its first sign
\* between two characters, neither of them a space
GluedBothSides(nodes) ==
    /\ StandaloneOps(nodes) = {}
    /\ LeadingApplies(nodes)
    /\ LET t == nodes[1].value
           i == FirstSign(t)
       IN  i + 2 <= Len(t) /\ t[i] # " " /\ t[i + 2] # " "

(* C7: for a function without standalone operator whose first word has its *)
(* first sign glued on both sides at index i > 0, check mode reports the   *)
(* "before" and the "after" diagnostic, these two only, and changes no     *)
(* token; fix mode reports nothing and makes the word                      *)
(* text[0..i) + " " + op + " " + text(i..end], changing no other token.    *)
C7_GluedBothSides ==
    \A v \in Visit : GluedBothSides(v.nodes) =>
        LET t == v.nodes[1].value
            i == FirstSign(t)
            op == <<t[i + 1]>>
        IN  IF v.fix
            THEN /\ v.reports = <<>>
                 /\ v.after[1].value =
                       SubSeq(t, 1, i) \o <<" ">> \o op \o <<" ">> \o SubSeq(t, i + 2, Len(t))
                 /\ \A k \in 2..Len(v.nodes) : v.after[k].value = v.nodes[k].value
                 /\ v.needsFix
            ELSE /\ Len(v.reports) = 2
                 /\ v.reports[1].message = [kind |-> "expectedBefore", operator |-> op]
                 /\ v.reports[2].message = [kind |-> "expectedAfter", operator |-> op]
                 /\ Untouched(v)
                 /\ v.needsFix = v.needsFixBefore

\* a fix-mode run that spaced out the sign of such a first word
C7_Witness ==
    \E v \in Visit : v.fix /\ GluedBothSides(v.nodes)
        /\ Len(v.after[1].value) = Len(v.nodes[1].value) + 2
        /\ Len(v.nodes) > 1

\* the last child is a word holding a sign, in a function of two or more
\* children without standalone operator whose first child the leading-sign
\* check does not examine
TrailingCase(nodes) ==
    /\ Len(nodes) >= 2
    /\ StandaloneOps(nodes) = {}
    /\ ~LeadingApplies(nodes)
    /\ nodes[Len(nodes)].type = "word"
    /\ FirstSign(nodes[Len(nodes)].value) >= 0

\* an operator word and one space stand right before the last child
OperatorBeforeLast(nodes) ==
    /\ Len(nodes) >= 3
    /\ nodes[Len(nodes) - 2].type = "word"
    /\ nodes[Len(nodes) - 2].value \in {<<"*">>, <<"/">>, <<"+">>, <<"-">>}
    /\ nodes[Len(nodes) - 1].type = "space"
    /\ nodes[Len(nodes) - 1].value = <<" ">>

SignReports(v) ==
    {k \in 1..Len(v.reports) : v.reports[k].message.kind = "expectedOperatorBeforeSign"}

(* C8: in check mode the trailing case gets exactly one diagnostic         *)
(* "expected an operator before sign", anchored at the first sign of the   *)
(* last word, unless an operator word and one space precede the last       *)
(* child, and then none; a function of one child never gets it.            *)
C8_OperatorBeforeSign ==
    \A v \in Visit : ~v.fix =>
        /\ TrailingCase(v.nodes) =>
              LET last == v.nodes[Len(v.nodes)]
                  i == FirstSign(last.value)
                  at == valueIndex + last.sourceIndex + i
              IN  IF OperatorBeforeLast(v.nodes) THEN v.reports = <<>>
                  ELSE v.reports =
                         << [message |-> [kind |-> "expectedOperatorBeforeSign",
                                          operator |-> <<last.value[i + 1]>>],
                             index |-> at, endIndex |-> at + 1] >>
        /\ Len(v.nodes) = 1 => SignReports(v) = {}

\* a check-mode run that let a signed last word pass behind "* "
C8_Witness ==
    \E v \in Visit : ~v.fix /\ TrailingCase(v.nodes) /\ OperatorBeforeLast(v.nodes)
        /\ Len(v.nodes) >= 5 /\ v.reports = <<>>

SpaceReports(v) ==
    {k \in 1..Len(v.reports) : v.reports[k].message.kind \in {"expectedBefore", "expectedAfter"}}

(* C9 as claimed: every "single space before/after" diagnostic starts at   *)
(* the offset of the operator character itself (valueIndex + offset in the *)
(* value) and ends one further; for a sign glued on both sides the two     *)
(* diagnostics start at the same offset.                                   *)
C9_AnchoredAtOperator ==
    \A v \in Visit : ~v.fix =>
        /\ \A k \in SpaceReports(v) :
              /\ CharAt(value, v.reports[k].index - valueIndex) = v.reports[k].message.operator
              /\ v.reports[k].endIndex = v.reports[k].index + 1
        /\ GluedBothSides(v.nodes) => v.reports[1].index = v.reports[2].index

(* C9 amended: every such diagnostic spans one character; it starts at the *)
(* operator's offset, valueIndex + the token's offset + the operator's     *)
(* index in the token, except the "after" diagnostic of a sign glued on    *)
(* both sides in the first word, which starts one character further.       *)
C9_AnchoredAtOperatorOrNext ==
    \A v \in Visit : ~v.fix =>
        \A k \in SpaceReports(v) :
            LET r == v.reports[k]
                t == v.nodes[1]
                i == FirstSign(t.value)
            IN  /\ r.endIndex = r.index + 1
                /\ IF StandaloneOps(v.nodes) # {}
                   THEN /\ \E o \in StandaloneOps(v.nodes) :
                              /\ r.index = valueIndex + v.nodes[o].sourceIndex
                              /\ r.message.operator = v.nodes[o].value
                        /\ CharAt(value, r.index - valueIndex) = r.message.operator
                   ELSE IF r.message.kind = "expectedBefore"
                   THEN /\ r.index = valueIndex + t.sourceIndex + i
                        /\ CharAt(value, r.index - valueIndex) = r.message.operator
                   ELSE /\ GluedBothSides(v.nodes)
                        /\ r.index = valueIndex + t.sourceIndex + i + 1
                        /\ CharAt(value, r.index - valueIndex - 1) = r.message.operator

\* a check-mode run whose two diagnostics for a sign glued on both sides
\* start at the sign and right behind it
C9_Witness ==
    \E v \in Visit : ~v.fix /\ GluedBothSides(v.nodes)
        /\ Len(v.reports) = 2
        /\ v.reports[1].index = valueIndex + v.nodes[1].sourceIndex + FirstSign(v.nodes[1].value)
        /\ v.reports[2].index = v.reports[1].index + 1

\* the first child is a standard-syntax word that holds a + or - somewhere
\* behind its first character
SignBehindFirstChar(nodes) ==
    /\ nodes # <<>>
    /\ nodes[1].type = "word"
    /\ isStandardSyntaxValue(nodes[1].value)
    /\ \E k \in 2..Len(nodes[1].value) : nodes[1].value[k] \in {"+", "-"}

(* C10 as claimed: when the first child of a function without standalone   *)
(* operator is a standard-syntax word containing a sign at an index        *)
(* greater than 0 - wherever its first sign is - the trailing-sign check   *)
(* reports nothing and changes nothing; no run yields both a "single       *)
(* space" and an "operator before sign" outcome.                           *)
C10_AnySignFirstCheckWins ==
    \A v \in Visit :
        /\ StandaloneOps(v.nodes) = {} /\ SignBehindFirstChar(v.nodes) =>
              /\ SignReports(v) = {}
              /\ \A k \in 2..Len(v.nodes) : v.after[k].value = v.nodes[k].value
        /\ ~(SpaceReports(v) # {} /\ SignReports(v) # {})

(* C10 amended: when the first child of a function without standalone      *)
(* operator is a standard-syntax word whose first sign stands behind its   *)
(* first character, the trailing-sign check reports nothing and changes    *)
(* nothing; no run yields both a "single space" and an "operator before    *)
(* sign" outcome.                                                          *)
C10_FirstCheckWins ==
    \A v \in Visit :
        /\ StandaloneOps(v.nodes) = {} /\ LeadingApplies(v.nodes) =>
              /\ SignReports(v) = {}
              /\ \A k \in 2..Len(v.nodes) : v.after[k].value = v.nodes[k].value
        /\ ~(SpaceReports(v) # {} /\ SignReports(v) # {})
        /\ StandaloneOps(v.nodes) = {} /\ Len(v.nodes) >= 2 =>
              ~(/\ v.after[1].value # v.nodes[1].value
                /\ v.after[Len(v.nodes)].value # v.nodes[Len(v.nodes)].value)

\* a run on a function whose first word and last word both hold a glued sign
C10_Witness ==
    \E v \in Visit :
        /\ StandaloneOps(v.nodes) = {} /\ LeadingApplies(v.nodes)
        /\ Len(v.nodes) >= 3
        /\ v.nodes[Len(v.nodes)].type = "word"
        /\ FirstSign(v.nodes[Len(v.nodes)].value) >= 0
        /\ ~OperatorBeforeLast(v.nodes)
        /\ SpaceReports(v) # {}

====
